---- MODULE Spec2Model ----
(***************************************************************************)
(* PokerLedger: the settlement solver and the ledger aggregator of         *)
(* src/utils/logic.ts, and the host state of src/App.tsx that commits      *)
(* players and sessions through saveAndRecalculate.                        *)
(*                                                                         *)
(* Money.  The code computes with JavaScript numbers.  The model computes  *)
(* with exact amounts on a grid of 1/Grid of a cent: the integer x stands  *)
(* for x / (100 * Grid) currency units, so that amounts below, at and      *)
(* above the 0.01 epsilon of the code are all representable.  Binary       *)
(* representation error of doubles is not modelled.                        *)
(***************************************************************************)
EXTENDS Integers, Sequences, FiniteSets, TLC

VARIABLES
    solveIn,      \* solver harness: the argument of calculateSettlements
    solveOut,     \* solver harness: the value it returned
    solvePc,      \* solver harness: "start" before the call, "done" after
    aggPlayers,   \* aggregator harness: the players argument
    aggSessions,  \* aggregator harness: the sessions argument
    aggOut,       \* aggregator harness: the players recalculatePlayerStats returned
    aggPc,        \* aggregator harness: "start" before the call, "done" after
    chartOut,     \* aggregator harness: the points generateChartData returned, <<>> before its call
    players,      \* usePokerData: the players state
    sessions,     \* usePokerData: the sessions state
    stored,       \* localStorage[STORAGE_KEY]: <<>> when unset, else <<the saved document>>
    view,         \* App: the view state
    editingSession, \* App: <<>> for null, else <<the session being edited>>
    step,         \* ActiveGame: the wizard step
    selectedIds,  \* ActiveGame: the selected ids, in insertion order
    inputs,       \* ActiveGame: the records being entered
    error,        \* ActiveGame: <<>> for null, else <<the error shown>>
    settlements,  \* ActiveGame: the settlements state
    playersMade,  \* the number of players created so far (each with a fresh id)
    sessionsMade, \* the number of sessions created so far (each with a fresh id and a later date)
    lastCall      \* the handler called last, with the session or player it deleted or the alert it raised

solveVars == <<solveIn, solveOut, solvePc>>

aggVars == <<aggPlayers, aggSessions, aggOut, aggPc, chartOut>>

dataVars == <<players, sessions, stored>>

gameVars == <<step, selectedIds, inputs, error, settlements>>

appVars == <<dataVars, view, editingSession, gameVars, playersMade, sessionsMade, lastCall>>

vars == <<solveVars, aggVars, appVars>>

----------------------------------------------------------------------------
(* Bounds of the model *)

\* grid points per cent (resolution of the amounts)
Grid == 3
\* longest records list handed to calculateSettlements
MaxRecords == 3
\* largest total of all buyIn and cashOut fields of one records list, in grid points
MaxMoney == 16
\* longest players list handed to recalculatePlayerStats
MaxAggPlayers == 2
\* most new sessions the host saves in one run
MaxSessionsMade == 1

----------------------------------------------------------------------------
(* Numbers *)

\* 0.01, the epsilon of logic.ts
Cent == Grid

Dollars(n) == n * 100 * Grid

Abs(x) == IF x < 0 THEN -x ELSE x

\* mutant: the larger of the two is taken
M_Min_TakesLarger(a, b) == IF a < b THEN b ELSE a

Min(a, b) == IF a < b THEN a ELSE b

Max(a, b) == IF a > b THEN a ELSE b

\* Number(x.toFixed(2)): the multiple of 0.01 nearest to x; of two equally
\* near ones toFixed takes the larger magnitude.
ToFixed2(x) ==
    LET a == Abs(x)
        q == a \div Grid
        r == a % Grid
        n == IF 2 * r >= Grid THEN q + 1 ELSE q
    IN  IF x < 0 THEN -(n * Grid) ELSE n * Grid

----------------------------------------------------------------------------
(* calculateSettlements, src/utils/logic.ts:6-62 *)

\* a PlayerSessionInput
Rec(id, b, c) == [playerId |-> id, buyIn |-> b, cashOut |-> c]

\* the harness value before any call
NoResult == [settlements |-> <<>>, error |-> <<>>]

RECURSIVE SumBuyIn(_)
SumBuyIn(recs) ==
    IF recs = <<>> THEN 0 ELSE recs[1].buyIn + SumBuyIn(Tail(recs))

RECURSIVE SumCashOut(_)
SumCashOut(recs) ==
    IF recs = <<>> THEN 0 ELSE recs[1].cashOut + SumCashOut(Tail(recs))

\* the object of the error branch; the message string holds exactly these
\* three formatted numbers
ImbalanceError(totalBuyIn, totalCashOut) ==
    [buyIns     |-> ToFixed2(totalBuyIn),
     cashOuts   |-> ToFixed2(totalCashOut),
     difference |-> ToFixed2(totalCashOut - totalBuyIn)]

\* mutant: a difference of exactly 0.01 is rejected
M_IsImbalanced_AtEpsilon(totalBuyIn, totalCashOut) ==
    Abs(totalBuyIn - totalCashOut) >= Cent

\* mutant: the comparison is inverted
M_IsImbalanced_Inverted(totalBuyIn, totalCashOut) ==
    Abs(totalBuyIn - totalCashOut) < Cent

IsImbalanced(totalBuyIn, totalCashOut) ==
    Abs(totalBuyIn - totalCashOut) > Cent

Net(p) == p.cashOut - p.buyIn

\* mutant: any negative net makes a debtor
M_IsDebtor_NoEpsilon(p) == Net(p) < 0

IsDebtor(p) == Net(p) < -Cent

\* mutant: the test is on the magnitude, in an if of its own
M_IsCreditor_Magnitude(p) == Abs(Net(p)) > Cent

\* mutant: any positive net makes a creditor
M_IsCreditor_NoEpsilon(p) == ~IsDebtor(p) /\ Net(p) > 0

IsCreditor(p) == ~IsDebtor(p) /\ Net(p) > Cent

RECURSIVE Debtors(_)
Debtors(recs) ==
    IF recs = <<>> THEN <<>>
    ELSE (IF IsDebtor(recs[1])
          THEN <<[id |-> recs[1].playerId, amount |-> Abs(Net(recs[1]))]>>
          ELSE <<>>) \o Debtors(Tail(recs))

RECURSIVE Creditors(_)
Creditors(recs) ==
    IF recs = <<>> THEN <<>>
    ELSE (IF IsCreditor(recs[1])
          THEN <<[id |-> recs[1].playerId, amount |-> Net(recs[1])]>>
          ELSE <<>>) \o Creditors(Tail(recs))

\* the comparator (a, b) => b.amount - a.amount: negative puts a before b
CompareDesc(a, b) == b.amount - a.amount

\* mutant: an element goes before its equals (the sort is not stable)
RECURSIVE M_InsertSorted_BeforeEquals(_, _)
M_InsertSorted_BeforeEquals(e, s) ==
    IF s = <<>> THEN <<e>>
    ELSE IF CompareDesc(e, s[1]) <= 0 THEN <<e>> \o s
    ELSE <<s[1]>> \o M_InsertSorted_BeforeEquals(e, Tail(s))

\* one insertion of a stable sort: e goes after every element it does not
\* strictly precede
RECURSIVE InsertSorted(_, _)
InsertSorted(e, s) ==
    IF s = <<>> THEN <<e>>
    ELSE IF CompareDesc(e, s[1]) < 0 THEN <<e>> \o s
    ELSE <<s[1]>> \o InsertSorted(e, Tail(s))

\* Array.prototype.sort with CompareDesc; the sort is stable
RECURSIVE SortDesc(_)
SortDesc(s) ==
    IF s = <<>> THEN <<>>
    ELSE InsertSorted(s[Len(s)], SortDesc(SubSeq(s, 1, Len(s) - 1)))

Settled(amount) == amount < Cent

\* the loop condition of line 39
SweepGuard(st) == st.i < Len(st.debtors) /\ st.j < Len(st.creditors)

\* mutant: a payment above 0.01 is made short by 0.01, and the rest by an
\* iteration of its own
M_SweepStep_PaysInParts(st) ==
    LET debtor   == st.debtors[st.i + 1]
        creditor == st.creditors[st.j + 1]
        least    == Min(debtor.amount, creditor.amount)
        amount   == IF least > Cent THEN least - Cent ELSE least
        dRest    == debtor.amount - amount
        cRest    == creditor.amount - amount
    IN  [debtors     |-> [st.debtors EXCEPT ![st.i + 1].amount = dRest],
         creditors   |-> [st.creditors EXCEPT ![st.j + 1].amount = cRest],
         settlements |-> Append(st.settlements,
                                [fromId |-> debtor.id,
                                 toId   |-> creditor.id,
                                 amount |-> ToFixed2(amount)]),
         i           |-> IF Settled(dRest) THEN st.i + 1 ELSE st.i,
         j           |-> IF Settled(cRest) THEN st.j + 1 ELSE st.j,
         iterations  |-> st.iterations + 1]

\* one iteration of the while loop, lines 40-58; st holds the loop's
\* variables and the number of iterations made
SweepStep(st) ==
    LET debtor   == st.debtors[st.i + 1]
        creditor == st.creditors[st.j + 1]
        amount   == Min(debtor.amount, creditor.amount)
        dRest    == debtor.amount - amount
        cRest    == creditor.amount - amount
    IN  [debtors     |-> [st.debtors EXCEPT ![st.i + 1].amount = dRest],
         creditors   |-> [st.creditors EXCEPT ![st.j + 1].amount = cRest],
         settlements |-> Append(st.settlements,
                                [fromId |-> debtor.id,
                                 toId   |-> creditor.id,
                                 amount |-> ToFixed2(amount)]),
         i           |-> IF Settled(dRest) THEN st.i + 1 ELSE st.i,
         j           |-> IF Settled(cRest) THEN st.j + 1 ELSE st.j,
         iterations  |-> st.iterations + 1]

\* the while loop of lines 39-59, one iteration per unfolding
RECURSIVE Sweep(_)
Sweep(st) ==
    IF ~SweepGuard(st) THEN st ELSE Sweep(SweepStep(st))

\* the loop's states in order, from st to the state at exit
RECURSIVE SweepRun(_)
SweepRun(st) ==
    IF ~SweepGuard(st) THEN <<st>> ELSE <<st>> \o SweepRun(SweepStep(st))

\* the loop's variables at line 38
SweepStart(recs) ==
    [debtors     |-> SortDesc(Debtors(recs)),
     creditors   |-> SortDesc(Creditors(recs)),
     settlements |-> <<>>,
     i           |-> 0,
     j           |-> 0,
     iterations  |-> 0]

\* the state of the loop when it exits
SweepOf(recs) == Sweep(SweepStart(recs))

\* mutant: the error branch returns the swept list with the error
M_calculateSettlements_KeepsList(recs) ==
    LET totalBuyIn   == SumBuyIn(recs)
        totalCashOut == SumCashOut(recs)
    IN  IF IsImbalanced(totalBuyIn, totalCashOut)
        THEN [settlements |-> SweepOf(recs).settlements,
              error       |-> <<ImbalanceError(totalBuyIn, totalCashOut)>>]
        ELSE [settlements |-> SweepOf(recs).settlements,
              error       |-> <<>>]

\* the returned object; error is <<>> when the key is absent
calculateSettlements(recs) ==
    LET totalBuyIn   == SumBuyIn(recs)
        totalCashOut == SumCashOut(recs)
    IN  IF IsImbalanced(totalBuyIn, totalCashOut)
        THEN [settlements |-> <<>>,
              error       |-> <<ImbalanceError(totalBuyIn, totalCashOut)>>]
        ELSE [settlements |-> SweepOf(recs).settlements,
              error       |-> <<>>]

----------------------------------------------------------------------------
(* recalculatePlayerStats, src/utils/logic.ts:68-89 *)

Player(id, name, avatar, totalWinnings, gamesPlayed) ==
    [id |-> id, name |-> name, avatar |-> avatar,
     totalWinnings |-> totalWinnings, gamesPlayed |-> gamesPlayed]

Session(id, date, records, list) ==
    [id |-> id, date |-> date, players |-> records, settlements |-> list]

\* mutant: only gamesPlayed is reset
M_ResetStats_KeepsWinnings(p) == [p EXCEPT !.gamesPlayed = 0]

\* mutant: only totalWinnings is reset
M_ResetStats_KeepsGames(p) == [p EXCEPT !.totalWinnings = 0]

\* { ...p, totalWinnings: 0, gamesPlayed: 0 }
ResetStats(p) == [p EXCEPT !.totalWinnings = 0, !.gamesPlayed = 0]

\* the position of key id in the entries of a Map, 0 when absent
MapIndex(map, id) ==
    IF \E n \in 1..Len(map) : map[n].id = id
    THEN CHOOSE n \in 1..Len(map) : map[n].id = id
    ELSE 0

\* mutant: a known key keeps the value it has
M_MapSet_KeepsFirst(map, entry) ==
    IF MapIndex(map, entry.id) = 0 THEN Append(map, entry) ELSE map

\* Map.prototype.set: a new key goes last, a known key keeps its place and
\* takes the new value
MapSet(map, entry) ==
    IF MapIndex(map, entry.id) = 0 THEN Append(map, entry)
    ELSE [map EXCEPT ![MapIndex(map, entry.id)] = entry]

\* new Map(players.map(p => [p.id, reset p])), as its entries in order
RECURSIVE PlayerMap(_, _)
PlayerMap(roster, map) ==
    IF roster = <<>> THEN map
    ELSE PlayerMap(Tail(roster), MapSet(map, ResetStats(roster[1])))

\* the comparator of the sessions: ascending time
CompareDate(a, b) == a.date - b.date

RECURSIVE InsertByDate(_, _)
InsertByDate(e, s) ==
    IF s = <<>> THEN <<e>>
    ELSE IF CompareDate(e, s[1]) < 0 THEN <<e>> \o s
    ELSE <<s[1]>> \o InsertByDate(e, Tail(s))

\* [...sessions].sort(by date); the sort is stable
RECURSIVE SortByDate(_)
SortByDate(s) ==
    IF s = <<>> THEN <<>>
    ELSE InsertByDate(s[Len(s)], SortByDate(SubSeq(s, 1, Len(s) - 1)))

\* mutant: a record of an unknown player opens an entry of its own
M_ApplyRecord_UnknownCounts(map, record) ==
    LET n == MapIndex(map, record.playerId)
    IN  IF n = 0
        THEN Append(map, Player(record.playerId, "", "none",
                                record.cashOut - record.buyIn, 1))
        ELSE [map EXCEPT ![n].gamesPlayed = @ + 1,
                         ![n].totalWinnings = @ + (record.cashOut - record.buyIn)]

\* mutant: totalWinnings is set to the net of the record, not raised by it
M_ApplyRecord_LastWins(map, record) ==
    LET n == MapIndex(map, record.playerId)
    IN  IF n = 0 THEN map
        ELSE [map EXCEPT ![n].gamesPlayed = @ + 1,
                         ![n].totalWinnings = record.cashOut - record.buyIn]

\* the body of the inner forEach: a record of an unknown player is skipped
ApplyRecord(map, record) ==
    LET n == MapIndex(map, record.playerId)
    IN  IF n = 0 THEN map
        ELSE [map EXCEPT ![n].gamesPlayed = @ + 1,
                         ![n].totalWinnings = @ + (record.cashOut - record.buyIn)]

RECURSIVE ApplyRecords(_, _)
ApplyRecords(map, records) ==
    IF records = <<>> THEN map
    ELSE ApplyRecords(ApplyRecord(map, records[1]), Tail(records))

RECURSIVE ApplySessions(_, _)
ApplySessions(map, history) ==
    IF history = <<>> THEN map
    ELSE ApplySessions(ApplyRecords(map, history[1].players), Tail(history))

\* Array.from(playerMap.values())
recalculatePlayerStats(roster, history) ==
    ApplySessions(PlayerMap(roster, <<>>), SortByDate(history))

----------------------------------------------------------------------------
(* generateChartData, src/utils/logic.ts:94-119 *)

\* a scores object as its entries in key order.  A value is a number, or NaN:
\* an entry with isNaN set, whose score field carries nothing.
Score(id, score) == [id |-> id, score |-> score, isNaN |-> FALSE]

NaNScore(id) == [id |-> id, score |-> 0, isNaN |-> TRUE]

\* the position of key id in a scores object, 0 when absent
ScoreIndex(scores, id) ==
    IF \E n \in 1..Len(scores) : scores[n].id = id
    THEN CHOOSE n \in 1..Len(scores) : scores[n].id = id
    ELSE 0

\* mutant: every player starts at the totalWinnings carried in
RECURSIVE M_ZeroScores_CarriesWinnings(_, _)
M_ZeroScores_CarriesWinnings(roster, acc) ==
    IF roster = <<>> THEN acc
    ELSE M_ZeroScores_CarriesWinnings(
             Tail(roster),
             IF ScoreIndex(acc, roster[1].id) = 0
             THEN Append(acc, Score(roster[1].id, roster[1].totalWinnings))
             ELSE acc)

\* players.reduce((acc, p) => ({ ...acc, [p.id]: 0 }), {})
RECURSIVE ZeroScores(_, _)
ZeroScores(roster, acc) ==
    IF roster = <<>> THEN acc
    ELSE ZeroScores(Tail(roster),
                    IF ScoreIndex(acc, roster[1].id) = 0
                    THEN Append(acc, Score(roster[1].id, 0))
                    ELSE acc)

\* newScores[p.playerId] += (p.cashOut - p.buyIn): an absent key reads as
\* undefined and the sum is NaN, which every later sum keeps
AddToScore(scores, record) ==
    LET n == ScoreIndex(scores, record.playerId)
    IN  IF n = 0 THEN Append(scores, NaNScore(record.playerId))
        ELSE IF scores[n].isNaN THEN scores
        ELSE [scores EXCEPT ![n].score = @ + (record.cashOut - record.buyIn)]

\* session.players.forEach over a copy of the current scores
RECURSIVE AddRecords(_, _)
AddRecords(scores, records) ==
    IF records = <<>> THEN scores
    ELSE AddRecords(AddToScore(scores, records[1]), Tail(records))

StartLabel == <<"Start">>

\* mutant: the label carries the index as it is
M_GLabel_ZeroBased(idx) == <<"G", idx>>

\* `G${idx + 1}`
GLabel(idx) == <<"G", idx + 1>>

\* sortedSessions.forEach((session, idx) => ...) from index idx on
RECURSIVE ChartPoints(_, _, _, _)
ChartPoints(dataPoints, currentScores, history, idx) ==
    IF history = <<>> THEN dataPoints
    ELSE LET newScores == AddRecords(currentScores, history[1].players)
         IN  ChartPoints(Append(dataPoints, [label |-> GLabel(idx), scores |-> newScores]),
                         newScores, Tail(history), idx + 1)

generateChartData(roster, history) ==
    ChartPoints(<<[label |-> StartLabel, scores |-> ZeroScores(roster, <<>>)]>>,
                ZeroScores(roster, <<>>), SortByDate(history), 0)

----------------------------------------------------------------------------
(* The host: usePokerData and App of src/App.tsx, with the ActiveGame      *)
(* wizard and the PlayerManager form of src/components/ActiveGame.tsx.     *)

SolveIdle ==
    /\ solveIn = <<>>
    /\ solveOut = NoResult
    /\ solvePc = "idle"

\* the aggregator harness at rest
AggIdle ==
    /\ aggPlayers = <<>>
    /\ aggSessions = <<>>
    /\ aggOut = <<>>
    /\ aggPc = "idle"
    /\ chartOut = <<>>

\* the names typed into the form, one per player made
PlayerNames == <<"ann", "bob", "cyd", "dee", "eve", "fay">>

\* the names the host has for new players; the roster holds at most as many
HostNames == <<"ann", "bob">>

\* most players the host adds in one run, and most players at one time
MaxPlayersMade == Len(HostNames)

\* the state after construction with nothing in storage; ActiveGame's
\* useState initial values stand while the component is not mounted
GameReset ==
    [step |-> "SELECT", selectedIds |-> <<>>, inputs |-> <<>>, error |-> <<>>,
     settlements |-> <<>>]

\* the record of a handler call
Call(name, arg) == [name |-> name, arg |-> arg]

AppStart ==
    /\ players = <<>>
    /\ sessions = <<>>
    /\ stored = <<>>
    /\ view = "DASHBOARD"
    /\ editingSession = <<>>
    /\ step = GameReset.step
    /\ selectedIds = GameReset.selectedIds
    /\ inputs = GameReset.inputs
    /\ error = GameReset.error
    /\ settlements = GameReset.settlements
    /\ playersMade = 0
    /\ sessionsMade = 0
    /\ lastCall = Call("none", <<>>)

\* ActiveGame is unmounted or mounted anew: its state is the initial one
ResetGame ==
    /\ step' = GameReset.step
    /\ selectedIds' = GameReset.selectedIds
    /\ inputs' = GameReset.inputs
    /\ error' = GameReset.error
    /\ settlements' = GameReset.settlements

\* mutant: the players are stored as passed in, not recalculated
M_saveAndRecalculate_StoresArgument(currentPlayers, currentSessions) ==
    /\ players' = recalculatePlayerStats(currentPlayers, currentSessions)
    /\ sessions' = currentSessions
    /\ stored' = <<[players |-> currentPlayers, sessions |-> currentSessions]>>

\* saveAndRecalculate: both states and the storage item are set from the same
\* recalculated players and the same sessions
saveAndRecalculate(currentPlayers, currentSessions) ==
    /\ players' = recalculatePlayerStats(currentPlayers, currentSessions)
    /\ sessions' = currentSessions
    /\ stored' = <<[players |-> recalculatePlayerStats(currentPlayers, currentSessions),
                    sessions |-> currentSessions]>>

\* mutant: the first entry is dropped, whatever its id
M_WithoutId_DropsFirst(list, id) == Tail(list)

\* array.filter(x => x.id !== id)
RECURSIVE WithoutId(_, _)
WithoutId(list, id) ==
    IF list = <<>> THEN <<>>
    ELSE (IF list[1].id # id THEN <<list[1]>> ELSE <<>>) \o WithoutId(Tail(list), id)

\* PlayerManager.handleSubmit and addPlayer: a player with a fresh id and
\* zero stats goes last
AddPlayer ==
    /\ view = "PLAYERS"
    /\ playersMade < MaxPlayersMade
    /\ Len(players) < MaxPlayersMade
    /\ playersMade' = playersMade + 1
    /\ saveAndRecalculate(
           Append(players, Player(playersMade + 1, HostNames[playersMade + 1], "none", 0, 0)),
           sessions)
    /\ UNCHANGED <<view, editingSession, gameVars, sessionsMade>>
    /\ UNCHANGED <<solveVars, aggVars>>
    /\ lastCall' = Call("addPlayer", <<>>)

\* the records of the sessions that do not name this id
WithoutRecordsOf(history, id) ==
    [s \in 1..Len(history) |->
        [history[s] EXCEPT !.players = SelectSeq(@, LAMBDA rec : rec.playerId # id)]]

\* mutant: the records of the deleted player are purged from the sessions
M_DeletePlayer_PurgesRecords ==
    /\ view = "PLAYERS"
    /\ \E n \in 1..Len(players) :
        /\ saveAndRecalculate(WithoutId(players, players[n].id),
                              WithoutRecordsOf(sessions, players[n].id))
        /\ lastCall' = Call("deletePlayer", <<players[n]>>)
    /\ UNCHANGED <<view, editingSession, gameVars, playersMade, sessionsMade>>
    /\ UNCHANGED <<solveVars, aggVars>>

\* deletePlayer, confirmed
DeletePlayer ==
    /\ view = "PLAYERS"
    /\ \E n \in 1..Len(players) :
        /\ saveAndRecalculate(WithoutId(players, players[n].id), sessions)
        /\ lastCall' = Call("deletePlayer", <<players[n]>>)
    /\ UNCHANGED <<view, editingSession, gameVars, playersMade, sessionsMade>>
    /\ UNCHANGED <<solveVars, aggVars>>

\* deleteSession, confirmed
DeleteSession ==
    /\ view = "HISTORY"
    /\ \E n \in 1..Len(sessions) :
        /\ saveAndRecalculate(players, WithoutId(sessions, sessions[n].id))
        /\ lastCall' = Call("deleteSession", <<sessions[n]>>)
    /\ UNCHANGED <<view, editingSession, gameVars, playersMade, sessionsMade>>
    /\ UNCHANGED <<solveVars, aggVars>>

\* new Set(array): the distinct members in order of first occurrence
RECURSIVE Distinct(_, _)
Distinct(list, seen) ==
    IF list = <<>> THEN seen
    ELSE Distinct(Tail(list),
                  IF \E n \in 1..Len(seen) : seen[n] = list[1] THEN seen
                  ELSE Append(seen, list[1]))

IdsOf(records) == [k \in 1..Len(records) |-> records[k].playerId]

\* startEdit, and the effect of ActiveGame mounted with initialSession
StartEdit ==
    /\ view = "HISTORY"
    /\ \E n \in 1..Len(sessions) :
        /\ editingSession' = <<sessions[n]>>
        /\ selectedIds' = Distinct(IdsOf(sessions[n].players), <<>>)
        /\ inputs' = sessions[n].players
    /\ view' = "NEW_GAME"
    /\ step' = "INPUT"
    /\ UNCHANGED <<dataVars, error, settlements, playersMade, sessionsMade>>
    /\ UNCHANGED <<solveVars, aggVars>>
    /\ lastCall' = Call("startEdit", <<>>)

\* cancelEdit, reached from the X button of the wizard while editing
CancelEdit ==
    /\ view = "NEW_GAME"
    /\ editingSession # <<>>
    /\ step \in {"SELECT", "INPUT"}
    /\ editingSession' = <<>>
    /\ view' = "HISTORY"
    /\ ResetGame
    /\ UNCHANGED <<dataVars, playersMade, sessionsMade>>
    /\ UNCHANGED <<solveVars, aggVars>>
    /\ lastCall' = Call("cancelEdit", <<>>)

Views == {"DASHBOARD", "NEW_GAME", "PLAYERS", "HISTORY"}

\* a navigation button; while editing the discard is confirmed first.
\* ActiveGame stays mounted only from NEW_GAME to NEW_GAME.
Navigate ==
    /\ \E item \in Views :
        /\ view' = item
        /\ IF view = "NEW_GAME" /\ item = "NEW_GAME"
           THEN UNCHANGED gameVars
           ELSE ResetGame
    /\ editingSession' = <<>>
    /\ UNCHANGED <<dataVars, playersMade, sessionsMade>>
    /\ UNCHANGED <<solveVars, aggVars>>
    /\ lastCall' = Call("handleClick", <<>>)

\* togglePlayer on one of the players shown
TogglePlayer ==
    /\ view = "NEW_GAME"
    /\ step = "SELECT"
    /\ \E n \in 1..Len(players) :
        selectedIds' =
            IF \E k \in 1..Len(selectedIds) : selectedIds[k] = players[n].id
            THEN SelectSeq(selectedIds, LAMBDA x : x # players[n].id)
            ELSE Append(selectedIds, players[n].id)
    /\ UNCHANGED <<dataVars, view, editingSession, step, inputs, error, settlements,
                   playersMade, sessionsMade>>
    /\ UNCHANGED <<solveVars, aggVars>>
    /\ lastCall' = Call("togglePlayer", <<>>)

\* startInput: at least two selected; every record starts at 0 / 0
StartInput ==
    /\ view = "NEW_GAME"
    /\ step = "SELECT"
    /\ Len(selectedIds) >= 2
    /\ inputs' = [k \in 1..Len(selectedIds) |-> Rec(selectedIds[k], 0, 0)]
    /\ step' = "INPUT"
    /\ UNCHANGED <<dataVars, view, editingSession, selectedIds, error, settlements,
                   playersMade, sessionsMade>>
    /\ UNCHANGED <<solveVars, aggVars>>
    /\ lastCall' = Call("startInput", <<>>)

\* the numbers typed into the fields
InputValues == {0, 2 * Cent}

\* handleInputChange(idx, field, val)
HandleInputChange ==
    /\ view = "NEW_GAME"
    /\ step = "INPUT"
    /\ \E idx \in 1..Len(inputs), val \in InputValues :
        \/ inputs' = [inputs EXCEPT ![idx].buyIn = val]
        \/ inputs' = [inputs EXCEPT ![idx].cashOut = val]
    /\ UNCHANGED <<dataVars, view, editingSession, step, selectedIds, error, settlements,
                   playersMade, sessionsMade>>
    /\ UNCHANGED <<solveVars, aggVars>>
    /\ lastCall' = Call("handleInputChange", <<>>)

\* the live stats of lines 75-79: the indicator of the input step
isBalanced(recs) ==
    LET totalBuyIn   == SumBuyIn(recs)
        totalCashOut == SumCashOut(recs)
        diff         == totalCashOut - totalBuyIn
    IN  Abs(diff) < Cent

\* mutant: the RESULTS step is entered whatever calculateSettlements returns
M_Calculate_AlwaysResults ==
    /\ view = "NEW_GAME"
    /\ step = "INPUT"
    /\ LET result == calculateSettlements(inputs)
       IN  IF result.error # <<>>
           THEN /\ error' = result.error
                /\ settlements' = settlements
                /\ step' = "RESULTS"
           ELSE /\ error' = <<>>
                /\ settlements' = result.settlements
                /\ step' = "RESULTS"
    /\ UNCHANGED <<dataVars, view, editingSession, selectedIds, inputs,
                   playersMade, sessionsMade>>
    /\ UNCHANGED <<solveVars, aggVars>>
    /\ lastCall' = Call("calculate", <<>>)

\* calculate
Calculate ==
    /\ view = "NEW_GAME"
    /\ step = "INPUT"
    /\ LET result == calculateSettlements(inputs)
       IN  IF result.error # <<>>
           THEN /\ error' = result.error
                /\ settlements' = <<>>
                /\ step' = step
           ELSE /\ error' = <<>>
                /\ settlements' = result.settlements
                /\ step' = "RESULTS"
    /\ UNCHANGED <<dataVars, view, editingSession, selectedIds, inputs,
                   playersMade, sessionsMade>>
    /\ UNCHANGED <<solveVars, aggVars>>
    /\ lastCall' = Call("calculate", <<>>)

\* the Back button of the INPUT step when no session is being edited
InputBack ==
    /\ view = "NEW_GAME"
    /\ step = "INPUT"
    /\ editingSession = <<>>
    /\ step' = "SELECT"
    /\ UNCHANGED <<dataVars, view, editingSession, selectedIds, inputs, error, settlements,
                   playersMade, sessionsMade>>
    /\ UNCHANGED <<solveVars, aggVars>>
    /\ lastCall' = Call("setStep", <<>>)

\* the Back button of the RESULTS step
ResultsBack ==
    /\ view = "NEW_GAME"
    /\ step = "RESULTS"
    /\ step' = "INPUT"
    /\ UNCHANGED <<dataVars, view, editingSession, selectedIds, inputs, error, settlements,
                   playersMade, sessionsMade>>
    /\ UNCHANGED <<solveVars, aggVars>>
    /\ lastCall' = Call("setStep", <<>>)

\* sessions.map(s => s.id === id ? { ...s, players, settlements } : s)
ReplaceSession(history, id, records, list) ==
    [n \in 1..Len(history) |->
        IF history[n].id = id
        THEN [history[n] EXCEPT !.players = records, !.settlements = list]
        ELSE history[n]]

\* handleFinishGame(settlements, inputs): the edited session is replaced in
\* place, or a new session with a fresh id and the current time goes first
handleFinishGame(list, records) ==
    /\ IF editingSession # <<>>
       THEN /\ saveAndRecalculate(
                   players, ReplaceSession(sessions, editingSession[1].id, records, list))
            /\ editingSession' = <<>>
            /\ sessionsMade' = sessionsMade
       ELSE /\ saveAndRecalculate(
                   players,
                   <<Session(sessionsMade + 1, sessionsMade + 1, records, list)>> \o sessions)
            /\ editingSession' = editingSession
            /\ sessionsMade' = sessionsMade + 1
    /\ view' = "DASHBOARD"

\* the new session of handleFinishGame is within the bound
MayFinish == editingSession # <<>> \/ sessionsMade < MaxSessionsMade

\* confirmFinish in the RESULTS step; ActiveGame is unmounted by the view change
ConfirmFinish ==
    /\ view = "NEW_GAME"
    /\ step = "RESULTS"
    /\ MayFinish
    /\ handleFinishGame(settlements, inputs)
    /\ ResetGame
    /\ UNCHANGED playersMade
    /\ UNCHANGED <<solveVars, aggVars>>
    /\ lastCall' = Call("handleFinishGame", <<>>)

\* the ids of the records of a game: those of the session being edited, which
\* ActiveGame holds from its mount, or two of the players in the order selected
GameIds ==
    IF step = "INPUT" THEN {IdsOf(inputs)}
    ELSE {<<players[a].id, players[b].id>> : a, b \in 1..Len(players)}
         \ {<<players[a].id, players[a].id>> : a \in 1..Len(players)}

\* the (buyIn, cashOut) typed for one player of a whole game: nothing, a
\* loss of the buy-in, a win without one
GameStakes == {st \in InputValues \X InputValues : st[1] = 0 \/ st[2] = 0}

\* the records ActiveGame can hold for these ids
GameRecords(ids) ==
    {[k \in 1..Len(ids) |-> Rec(ids[k], v[k][1], v[k][2])] :
        v \in [1..Len(ids) -> GameStakes]}

\* a whole game in one step: the wizard is run from where it stands to its
\* RESULTS step (the values are typed, calculate succeeds) and confirmed
FinishGame ==
    /\ view = "NEW_GAME"
    /\ MayFinish
    /\ \E ids \in GameIds : \E records \in GameRecords(ids) :
        /\ calculateSettlements(records).error = <<>>
        /\ handleFinishGame(calculateSettlements(records).settlements, records)
    /\ ResetGame
    /\ UNCHANGED playersMade
    /\ UNCHANGED <<solveVars, aggVars>>
    /\ lastCall' = Call("handleFinishGame", <<>>)

\* the files handed to importData: text that JSON.parse rejects, documents
\* lacking a key, documents whose players or sessions is not an array, and
\* two well-formed documents.  The players of ImportedDoc carry stats that
\* their sessions do not give, and its session names a player that is not
\* listed and carries a settlement of its own.
NoValue == [kind |-> "absent", list |-> <<>>]

ArrayOf(list) == [kind |-> "array", list |-> list]

NotAnArray == [kind |-> "object", list |-> <<>>]

ImportedPlayers == <<Player(101, "zed", "img", 5 * Cent, 4)>>

ImportedSessions ==
    <<Session(201, 0, <<Rec(101, 0, 2 * Cent), Rec(102, 2 * Cent, 0)>>,
              <<[fromId |-> 101, toId |-> 102, amount |-> Cent]>>)>>

ImportedDoc == [parses |-> TRUE, players |-> ArrayOf(ImportedPlayers),
                sessions |-> ArrayOf(ImportedSessions)]

ImportDocs ==
    {[parses |-> FALSE, players |-> NoValue, sessions |-> NoValue],
     [parses |-> TRUE, players |-> NoValue, sessions |-> ArrayOf(ImportedSessions)],
     [parses |-> TRUE, players |-> ArrayOf(ImportedPlayers), sessions |-> NoValue],
     [parses |-> TRUE, players |-> ArrayOf(ImportedPlayers), sessions |-> NotAnArray],
     [parses |-> TRUE, players |-> NotAnArray, sessions |-> ArrayOf(ImportedSessions)],
     [parses |-> TRUE, players |-> ArrayOf(<<>>), sessions |-> ArrayOf(<<>>)],
     ImportedDoc}

\* mutant: sessions is not tested for being an array
M_ImportAccepted_AnySessions(doc) ==
    /\ doc.parses
    /\ doc.players.kind = "array"

\* importData commits: the text parses, players is truthy, sessions is an
\* array, and players.map does not throw
ImportAccepted(doc) ==
    /\ doc.parses
    /\ doc.players.kind # "absent"
    /\ doc.sessions.kind = "array"
    /\ doc.players.kind = "array"

\* the alert importData raises: the else branch when a key fails the test,
\* the catch branch when JSON.parse or recalculatePlayerStats throws
ImportAlert(doc) ==
    IF ImportAccepted(doc) THEN "Data imported successfully!"
    ELSE IF doc.parses /\ ~(doc.players.kind # "absent" /\ doc.sessions.kind = "array")
    THEN "Invalid file format."
    ELSE "Failed to parse JSON file."

\* importData(jsonData) for the text of one file
ImportOf(doc) ==
    /\ IF ImportAccepted(doc)
       THEN saveAndRecalculate(doc.players.list, doc.sessions.list)
       ELSE UNCHANGED dataVars
    /\ lastCall' = Call("importData", <<ImportAlert(doc)>>)
    /\ UNCHANGED <<view, editingSession, gameVars, playersMade, sessionsMade>>
    /\ UNCHANGED <<solveVars, aggVars>>

\* importData, from the file chosen in the settings menu
ImportData == \E doc \in ImportDocs : ImportOf(doc)

\* the page is loaded again: the mount effect of usePokerData reads the
\* storage item, every other state is constructed anew
Reload ==
    /\ players' = IF stored = <<>> THEN <<>> ELSE stored[1].players
    /\ sessions' = IF stored = <<>> THEN <<>> ELSE stored[1].sessions
    /\ view' = "DASHBOARD"
    /\ editingSession' = <<>>
    /\ ResetGame
    /\ UNCHANGED <<stored, playersMade, sessionsMade>>
    /\ UNCHANGED <<solveVars, aggVars>>
    /\ lastCall' = Call("useEffect", <<>>)

AppInit == AppStart /\ SolveIdle /\ AggIdle

AppNext ==
    \/ AddPlayer
    \/ DeletePlayer
    \/ DeleteSession
    \/ StartEdit
    \/ CancelEdit
    \/ Navigate
    \/ FinishGame
    \/ ImportData
    \/ Reload

Spec == AppInit /\ [][AppNext]_vars

----------------------------------------------------------------------------
(* The wizard step by step: ActiveGame mounted by the App over a roster of  *)
(* the host's players, with the handlers of its three steps and the         *)
(* handlers of the App that mount and unmount it.                           *)

\* the players of the host, added one after the other
HostRoster == [n \in 1..Len(HostNames) |-> Player(n, HostNames[n], "none", 0, 0)]

GameInit ==
    /\ players = HostRoster
    /\ sessions = <<>>
    /\ stored = <<[players |-> HostRoster, sessions |-> <<>>]>>
    /\ view = "NEW_GAME"
    /\ editingSession = <<>>
    /\ step = GameReset.step
    /\ selectedIds = GameReset.selectedIds
    /\ inputs = GameReset.inputs
    /\ error = GameReset.error
    /\ settlements = GameReset.settlements
    /\ playersMade = Len(HostNames)
    /\ sessionsMade = 0
    /\ lastCall = Call("handleClick", <<>>)
    /\ SolveIdle
    /\ AggIdle

GameNext ==
    \/ TogglePlayer
    \/ StartInput
    \/ HandleInputChange
    \/ Calculate
    \/ InputBack
    \/ ResultsBack
    \/ ConfirmFinish
    \/ StartEdit
    \/ CancelEdit
    \/ Navigate

GameSpec == GameInit /\ [][GameNext]_vars

----------------------------------------------------------------------------
(* The solver harness: a records list is built record by record within   *)
(* the bounds, or is one of the scenarios of the specification, and is     *)
(* handed to calculateSettlements.                                         *)

\* A(50, 0), B(50, 150), C(50, 0)
ScenarioABC == <<Rec(1, Dollars(50), 0), Rec(2, Dollars(50), Dollars(150)), Rec(3, Dollars(50), 0)>>

\* the same with B's cashOut 160
ScenarioImbalance == <<Rec(1, Dollars(50), 0), Rec(2, Dollars(50), Dollars(160)), Rec(3, Dollars(50), 0)>>

\* buy-ins 100, cash-outs 100.02
ScenarioTwoCents == <<Rec(1, Dollars(100), 0), Rec(2, 0, Dollars(100) + 2 * Cent)>>

\* one winner of 0.03 against two losers of 0.01
ScenarioSmallDebts == <<Rec(1, 0, 3 * Cent), Rec(2, Cent, 0), Rec(3, Cent, 0)>>

Scenarios == {ScenarioABC, ScenarioImbalance, ScenarioTwoCents, ScenarioSmallDebts}

\* the harness of calculateSettlements before its call
SolveStart ==
    /\ solveIn \in {<<>>} \cup Scenarios
    /\ solveOut = NoResult
    /\ solvePc = "start"

SolveInit == SolveStart /\ AggIdle /\ AppStart

\* the money of the list so far
MoneyOf(recs) == SumBuyIn(recs) + SumCashOut(recs)

\* one more record, with the next playerId: the ids of one call are unique
AddRecord ==
    /\ solvePc = "start"
    /\ Len(solveIn) < MaxRecords
    /\ \E b \in 0..(MaxMoney - MoneyOf(solveIn)) :
         \E c \in 0..(MaxMoney - MoneyOf(solveIn) - b) :
            solveIn' = Append(solveIn, Rec(Len(solveIn) + 1, b, c))
    /\ UNCHANGED <<solveOut, solvePc, aggVars, appVars>>

Solve ==
    /\ solvePc = "start"
    /\ solveOut' = calculateSettlements(solveIn)
    /\ solvePc' = "done"
    /\ UNCHANGED <<solveIn, aggVars, appVars>>

SolveNext == AddRecord \/ Solve

SolveSpec == SolveInit /\ [][SolveNext]_vars

----------------------------------------------------------------------------
(* The aggregator harness: a players list and a sessions list are built    *)
(* within the bounds and handed to recalculatePlayerStats.  The players    *)
(* may repeat an id and may carry stale stats; a record may name an id     *)
(* that no player has; sessions may share a date.                          *)

\* the ids of the players
AggIds == {1, 2}

\* an id that no player has
UnknownId == Cardinality(AggIds) + 1

\* most records in all sessions of one sessions list: one for each id a
\* record can name
MaxAggRecords == Cardinality(AggIds \cup {UnknownId})

\* the timestamps of the sessions
AggDates == {1, 2}

\* longest sessions list handed to recalculatePlayerStats
MaxAggSessions == Cardinality(AggDates)

\* the stats a player carries into the call: fresh, or left from before
CarriedStats == {<<0, 0>>, <<7 * Cent, 3>>}

\* the (buyIn, cashOut) of a record: a win, a loss
Stakes == {<<0, 2 * Cent>>, <<3 * Cent, 0>>}

AggStart ==
    /\ aggPlayers = <<>>
    /\ aggSessions = <<>>
    /\ aggOut = <<>>
    /\ aggPc = "start"
    /\ chartOut = <<>>

AggInit == AggStart /\ SolveIdle /\ AppStart

RECURSIVE CountRecords(_)
CountRecords(history) ==
    IF history = <<>> THEN 0 ELSE Len(history[1].players) + CountRecords(Tail(history))

AggAddPlayer ==
    /\ aggPc = "start"
    /\ Len(aggPlayers) < MaxAggPlayers
    /\ \E id \in AggIds, st \in CarriedStats :
        aggPlayers' = Append(aggPlayers,
                             Player(id, PlayerNames[Len(aggPlayers) + 1],
                                    IF st[2] = 0 THEN "none" ELSE "img", st[1], st[2]))
    /\ UNCHANGED <<aggSessions, aggOut, aggPc, chartOut, solveVars, appVars>>

AggAddSession ==
    /\ aggPc = "start"
    /\ Len(aggSessions) < MaxAggSessions
    /\ \E date \in AggDates :
        aggSessions' = Append(aggSessions, Session(Len(aggSessions) + 1, date, <<>>, <<>>))
    /\ UNCHANGED <<aggPlayers, aggOut, aggPc, chartOut, solveVars, appVars>>

\* one more record in the last session
AggAddRecord ==
    /\ aggPc = "start"
    /\ aggSessions # <<>>
    /\ CountRecords(aggSessions) < MaxAggRecords
    /\ \E id \in AggIds \cup {UnknownId}, st \in Stakes :
        aggSessions' = [aggSessions EXCEPT ![Len(aggSessions)].players =
                            Append(@, Rec(id, st[1], st[2]))]
    /\ UNCHANGED <<aggPlayers, aggOut, aggPc, chartOut, solveVars, appVars>>

AggRecompute ==
    /\ aggPc = "start"
    /\ aggOut' = recalculatePlayerStats(aggPlayers, aggSessions)
    /\ aggPc' = "done"
    /\ UNCHANGED <<aggPlayers, aggSessions, chartOut, solveVars, appVars>>

\* the same lists handed to generateChartData
AggChart ==
    /\ aggPc = "done"
    /\ chartOut' = generateChartData(aggPlayers, aggSessions)
    /\ aggPc' = "charted"
    /\ UNCHANGED <<aggPlayers, aggSessions, aggOut, solveVars, appVars>>

AggNext == AggAddPlayer \/ AggAddSession \/ AggAddRecord \/ AggRecompute \/ AggChart

AggSpec == AggInit /\ [][AggNext]_vars

----------------------------------------------------------------------------
(* Properties of calculateSettlements *)

Done == solvePc = "done"

Balanced == Abs(SumBuyIn(solveIn) - SumCashOut(solveIn)) <= Cent

RECURSIVE PaidBy(_, _)
PaidBy(list, id) ==
    IF list = <<>> THEN 0
    ELSE (IF list[1].fromId = id THEN list[1].amount ELSE 0)
         + PaidBy(Tail(list), id)

RECURSIVE ReceivedBy(_, _)
ReceivedBy(list, id) ==
    IF list = <<>> THEN 0
    ELSE (IF list[1].toId = id THEN list[1].amount ELSE 0)
         + ReceivedBy(Tail(list), id)

NetDebtorIdx == {k \in 1..Len(solveIn) : solveIn[k].cashOut - solveIn[k].buyIn < -Cent}

NetCreditorIdx == {k \in 1..Len(solveIn) : solveIn[k].cashOut - solveIn[k].buyIn > Cent}

\* C1: Conservation. For a balanced input the call succeeds, and every
\* player's payments are within 0.02 of max(0, buyIn - cashOut) and receipts
\* within 0.02 of max(0, cashOut - buyIn).
C1_Conservation ==
    (Done /\ Balanced) =>
        /\ solveOut.error = <<>>
        /\ \A k \in 1..Len(solveIn) :
            /\ Abs(PaidBy(solveOut.settlements, solveIn[k].playerId)
                   - Max(0, solveIn[k].buyIn - solveIn[k].cashOut)) <= 2 * Cent
            /\ Abs(ReceivedBy(solveOut.settlements, solveIn[k].playerId)
                   - Max(0, solveIn[k].cashOut - solveIn[k].buyIn)) <= 2 * Cent

IsTwoDecimalsOf(x, y) == x % Cent = 0 /\ 2 * Abs(x - y) <= Cent

C3_ErrorOrSettlements ==
    Done =>
        /\ solveOut.error # <<>> => solveOut.settlements = <<>>
        /\ Balanced => solveOut.error = <<>>

\* a rejected input that has a debtor and a creditor to match
C3_Witness ==
    /\ Done
    /\ solveOut.error # <<>>
    /\ NetDebtorIdx # {}
    /\ NetCreditorIdx # {}

\* C4: no settlement has fromId equal to toId (playerIds unique).
C4_NoSelfSettlement ==
    Done => \A n \in 1..Len(solveOut.settlements) :
                solveOut.settlements[n].fromId # solveOut.settlements[n].toId

C4_Witness == Done /\ Len(solveOut.settlements) >= 2

\* C5 as stated: for every balanced input the number of settlements is at
\* most #debtors + #creditors - 1.
C5_CountBound ==
    (Done /\ Balanced) =>
        Len(solveOut.settlements) <= Cardinality(NetDebtorIdx) + Cardinality(NetCreditorIdx) - 1

\* C5 amended: for every balanced input the number of settlements is at most
\* max(0, #debtors + #creditors - 1); with neither debtors nor creditors the
\* list is empty.
C5_CountBoundNonNegative ==
    (Done /\ Balanced) =>
        Len(solveOut.settlements)
            <= Max(0, Cardinality(NetDebtorIdx) + Cardinality(NetCreditorIdx) - 1)

\* the bound is met with three parties
C5_Witness ==
    /\ Done
    /\ Balanced
    /\ Cardinality(NetDebtorIdx) + Cardinality(NetCreditorIdx) = 3
    /\ Len(solveOut.settlements) = 2

\* C6: every settlement goes from a player with net below -0.01 to a player
\* with net above 0.01 and has an amount above 0.
C6_DebtorToCreditor ==
    Done => \A n \in 1..Len(solveOut.settlements) :
        /\ \E k \in NetDebtorIdx : solveIn[k].playerId = solveOut.settlements[n].fromId
        /\ \E k \in NetCreditorIdx : solveIn[k].playerId = solveOut.settlements[n].toId
        /\ solveOut.settlements[n].amount > 0

\* a settlement of a remainder that is off the cent grid
C6_Witness ==
    /\ Done
    /\ Len(solveOut.settlements) >= 2
    /\ \E k \in NetDebtorIdx : (solveIn[k].buyIn - solveIn[k].cashOut) % Cent # 0

\* the sweep as C7 describes it, from the records alone: the magnitude of
\* record k, and the order "larger magnitude first, input order among equals"
Magnitude(k) == Abs(solveIn[k].cashOut - solveIn[k].buyIn)

GoesBefore(a, b) == Magnitude(a) > Magnitude(b) \/ (Magnitude(a) = Magnitude(b) /\ a < b)

\* the member of S that r - 1 other members go before
NthOf(S, r) == CHOOSE a \in S : Cardinality({b \in S : GoesBefore(b, a)}) = r - 1

\* the transfers from the r-th debtor and q-th creditor on, dRem and cRem
\* being what these two still owe and are owed
RECURSIVE ExpectedTransfers(_, _, _, _)
ExpectedTransfers(r, q, dRem, cRem) ==
    IF r > Cardinality(NetDebtorIdx) \/ q > Cardinality(NetCreditorIdx) THEN <<>>
    ELSE
        LET t  == IF dRem < cRem THEN dRem ELSE cRem
            r2 == IF dRem - t < Cent THEN r + 1 ELSE r
            q2 == IF cRem - t < Cent THEN q + 1 ELSE q
            d2 == IF r2 = r THEN dRem - t
                  ELSE IF r2 <= Cardinality(NetDebtorIdx)
                       THEN Magnitude(NthOf(NetDebtorIdx, r2)) ELSE 0
            c2 == IF q2 = q THEN cRem - t
                  ELSE IF q2 <= Cardinality(NetCreditorIdx)
                       THEN Magnitude(NthOf(NetCreditorIdx, q2)) ELSE 0
        IN  <<[fromId |-> solveIn[NthOf(NetDebtorIdx, r)].playerId,
               toId   |-> solveIn[NthOf(NetCreditorIdx, q)].playerId,
               amount |-> t]>>
            \o ExpectedTransfers(r2, q2, d2, c2)

ExpectedSweep ==
    IF NetDebtorIdx = {} \/ NetCreditorIdx = {} THEN <<>>
    ELSE ExpectedTransfers(1, 1, Magnitude(NthOf(NetDebtorIdx, 1)),
                           Magnitude(NthOf(NetCreditorIdx, 1)))

\* C7: the settlements are, in order, those of the two-pointer sweep over the
\* debtors and creditors sorted by descending magnitude, equal magnitudes in
\* input order, each transferring min(remaining debt, remaining credit)
\* rendered with two decimals; A(50, 0), B(50, 150), C(50, 0) gives exactly
\* [A->B 50, C->B 50].
C7_SweepOrder ==
    (Done /\ Balanced) =>
        /\ Len(solveOut.settlements) = Len(ExpectedSweep)
        /\ \A n \in 1..Len(solveOut.settlements) :
            /\ solveOut.settlements[n].fromId = ExpectedSweep[n].fromId
            /\ solveOut.settlements[n].toId = ExpectedSweep[n].toId
            /\ IsTwoDecimalsOf(solveOut.settlements[n].amount, ExpectedSweep[n].amount)
        /\ solveIn = ScenarioABC =>
            solveOut.settlements = <<[fromId |-> 1, toId |-> 2, amount |-> Dollars(50)],
                                     [fromId |-> 3, toId |-> 2, amount |-> Dollars(50)]>>

\* two debtors of equal magnitude, the later one larger in no way, both paying
C7_Witness ==
    /\ Done
    /\ Balanced
    /\ MoneyOf(solveIn) <= MaxMoney
    /\ Len(solveOut.settlements) = 2
    /\ \E a, b \in NetDebtorIdx : a < b /\ Magnitude(a) = Magnitude(b)
    /\ solveOut.settlements[1].fromId # solveOut.settlements[2].fromId

\* C8: when every record has cashOut = buyIn the result is the empty list and
\* no error.
C8_BreakEven ==
    (Done /\ \A k \in 1..Len(solveIn) : solveIn[k].cashOut = solveIn[k].buyIn) =>
        solveOut = [settlements |-> <<>>, error |-> <<>>]

C8_Witness ==
    /\ Done
    /\ Len(solveIn) >= 2
    /\ \A k \in 1..Len(solveIn) : solveIn[k].cashOut = solveIn[k].buyIn /\ solveIn[k].buyIn > 0

----------------------------------------------------------------------------
(* Properties of recalculatePlayerStats *)

AggDone == aggPc = "done"

\* the records of player id in the sessions: (session, record) positions
RecordsOfPlayer(history, id) ==
    {<<s, r>> \in (1..Len(history)) \X (1..MaxAggRecords) :
        r <= Len(history[s].players) /\ history[s].players[r].playerId = id}

RECURSIVE NetSum(_, _)
NetSum(history, where) ==
    IF where = {} THEN 0
    ELSE LET w == CHOOSE x \in where : TRUE
         IN  (history[w[1]].players[w[2]].cashOut - history[w[1]].players[w[2]].buyIn)
             + NetSum(history, where \ {w})

\* C10: every player of the list gets gamesPlayed equal to the number of
\* session records with the player's id and totalWinnings equal to the sum of
\* cashOut - buyIn over them, whatever stats the input players carried.
C10_StatsFromRecords ==
    AggDone =>
        /\ \A k \in 1..Len(aggPlayers) : \E n \in 1..Len(aggOut) : aggOut[n].id = aggPlayers[k].id
        /\ \A n \in 1..Len(aggOut) :
            /\ aggOut[n].gamesPlayed
                 = Cardinality(RecordsOfPlayer(aggSessions, aggOut[n].id))
            /\ aggOut[n].totalWinnings
                 = NetSum(aggSessions, RecordsOfPlayer(aggSessions, aggOut[n].id))

\* a player with stale stats and records in two sessions
C10_Witness ==
    /\ AggDone
    /\ \E k \in 1..Len(aggPlayers) :
        /\ aggPlayers[k].gamesPlayed # 0
        /\ \E s1, s2 \in 1..Len(aggSessions) :
            /\ s1 # s2
            /\ \E r \in 1..Len(aggSessions[s1].players) :
                aggSessions[s1].players[r].playerId = aggPlayers[k].id
            /\ \E r \in 1..Len(aggSessions[s2].players) :
                aggSessions[s2].players[r].playerId = aggPlayers[k].id

----------------------------------------------------------------------------
(* The host: players, sessions and the storage item                        *)

\* C9: in every state the host reaches, the players held in state are
\* recalculatePlayerStats of the players and the sessions held in state, and
\* the storage item, once written, holds these same players and sessions.
C9_CommittedConsistent ==
    /\ players = recalculatePlayerStats(players, sessions)
    /\ stored # <<>> => stored[1] = [players |-> players, sessions |-> sessions]

\* a session saved by the wizard is held and stored next to a player whose
\* stats come from it
C9_Witness ==
    /\ sessionsMade > 0
    /\ stored # <<>>
    /\ \E s \in 1..Len(sessions) : \E n \in 1..Len(players) :
        /\ sessions[s].id <= sessionsMade
        /\ \E r \in 1..Len(sessions[s].players) :
            /\ sessions[s].players[r].playerId = players[n].id
            /\ sessions[s].players[r].cashOut # sessions[s].players[r].buyIn
        /\ players[n].gamesPlayed > 0
        /\ players[n].totalWinnings # 0

\* C11: recalculatePlayerStats applied to its own result and the same
\* sessions gives that result again.
C11_Idempotent ==
    AggDone => recalculatePlayerStats(aggOut, aggSessions) = aggOut

\* the first call replaced stale stats by stats that come from a record
C11_Witness ==
    /\ AggDone
    /\ \E k \in 1..Len(aggPlayers) : \E n \in 1..Len(aggOut) :
        /\ aggPlayers[k].gamesPlayed # 0
        /\ aggOut[n].id = aggPlayers[k].id
        /\ aggOut[n].gamesPlayed # 0
        /\ aggOut[n].totalWinnings # 0
        /\ aggOut[n].totalWinnings # aggPlayers[k].totalWinnings

----------------------------------------------------------------------------
(* Properties of generateChartData *)

AggCharted == aggPc = "charted"

\* the last point of the series
LastPoint == chartOut[Len(chartOut)]

\* C12: for every player of the list, the score of the last point of
\* generateChartData is a number and equals the totalWinnings of that player
\* in the result of recalculatePlayerStats over the same lists.
C12_CrossConsistency ==
    AggCharted =>
        \A k \in 1..Len(aggPlayers) :
            \E n \in 1..Len(aggOut) : \E m \in 1..Len(LastPoint.scores) :
                /\ aggOut[n].id = aggPlayers[k].id
                /\ LastPoint.scores[m].id = aggPlayers[k].id
                /\ ~LastPoint.scores[m].isNaN
                /\ LastPoint.scores[m].score = aggOut[n].totalWinnings

\* a series over two sessions whose last point has a score other than 0 for
\* a player that came in with stale stats
C12_Witness ==
    /\ AggCharted
    /\ Len(chartOut) = 3
    /\ \E k \in 1..Len(aggPlayers) : \E m \in 1..Len(LastPoint.scores) :
        /\ aggPlayers[k].totalWinnings # 0
        /\ LastPoint.scores[m].id = aggPlayers[k].id
        /\ LastPoint.scores[m].score # 0
        /\ LastPoint.scores[m].score # chartOut[2].scores[m].score

----------------------------------------------------------------------------
(* Properties of the host: sessions and their settlements *)

\* C13: in every state the host reaches, the settlements of every session
\* held in state and of every session in the storage item are the
\* settlements calculateSettlements returns for the records of that session.
C13_SettlementsFromSolver ==
    /\ \A s \in 1..Len(sessions) :
        sessions[s].settlements = calculateSettlements(sessions[s].players).settlements
    /\ stored # <<>> =>
        \A s \in 1..Len(stored[1].sessions) :
            stored[1].sessions[s].settlements
                = calculateSettlements(stored[1].sessions[s].players).settlements

\* the records of player id in a session
RecordsIn(session, id) ==
    {r \in 1..Len(session.players) : session.players[r].playerId = id}

\* cashOut - buyIn of the record of player id in a session that holds one
NetIn(session, id) ==
    LET r == CHOOSE x \in RecordsIn(session, id) : TRUE
    IN  session.players[r].cashOut - session.players[r].buyIn

----------------------------------------------------------------------------
(* Further properties of recalculatePlayerStats *)

\* the ids of the players list
RosterIds(roster) == {roster[k].id : k \in 1..Len(roster)}

\* (session, record) positions of the records whose playerId no player has
UnknownRecords(roster, history) ==
    {w \in UNION {{<<s, r>> : r \in 1..Len(history[s].players)} : s \in 1..Len(history)} :
        history[w[1]].players[w[2]].playerId \notin RosterIds(roster)}

\* the sequence without its entry at position r
RemoveAt(list, r) == SubSeq(list, 1, r - 1) \o SubSeq(list, r + 1, Len(list))

\* the history without the record at position w
WithoutRecord(history, w) ==
    [history EXCEPT ![w[1]].players = RemoveAt(@, w[2])]

\* C15: recalculatePlayerStats returns for a history with a record whose
\* playerId is not in the players list what it returns for the history
\* without that record, and no entry of the result carries that id.
C15_UnknownSkipped ==
    AggDone =>
        \A w \in UnknownRecords(aggPlayers, aggSessions) :
            /\ aggOut = recalculatePlayerStats(aggPlayers, WithoutRecord(aggSessions, w))
            /\ \A n \in 1..Len(aggOut) :
                aggOut[n].id # aggSessions[w[1]].players[w[2]].playerId

\* a session with a record of an unknown id next to a record of a player,
\* who got stats from it
C15_Witness ==
    /\ AggDone
    /\ \E w \in UnknownRecords(aggPlayers, aggSessions) :
        \E r \in 1..Len(aggSessions[w[1]].players) : \E n \in 1..Len(aggOut) :
            /\ r > w[2]
            /\ aggSessions[w[1]].players[r].playerId = aggOut[n].id
            /\ aggOut[n].gamesPlayed > 0

\* the ids of the players list in order, repeated as the list repeats them
PlayerIds(roster) == [k \in 1..Len(roster) |-> roster[k].id]

\* the position of the last player with this id
LastWithId(roster, id) ==
    CHOOSE k \in 1..Len(roster) :
        /\ roster[k].id = id
        /\ \A j \in (k + 1)..Len(roster) : roster[j].id # id

\* C16 as stated: the result has as many entries as the players list, and
\* entry k has the id, the name and the avatar of player k.
C16_SameEntries ==
    AggDone =>
        /\ Len(aggOut) = Len(aggPlayers)
        /\ \A k \in 1..Len(aggPlayers) :
            /\ aggOut[k].id = aggPlayers[k].id
            /\ aggOut[k].name = aggPlayers[k].name
            /\ aggOut[k].avatar = aggPlayers[k].avatar

\* C16, amended: the result has one entry per distinct id of the players
\* list, in the order of first occurrence, with the name and the avatar of
\* the last player of that id; for a list of distinct ids these are the
\* entries of the list, one for one.
C16_OneEntryPerId ==
    AggDone =>
        LET ids == Distinct(PlayerIds(aggPlayers), <<>>)
        IN  /\ Len(aggOut) = Len(ids)
            /\ \A n \in 1..Len(ids) :
                /\ aggOut[n].id = ids[n]
                /\ aggOut[n].name = aggPlayers[LastWithId(aggPlayers, ids[n])].name
                /\ aggOut[n].avatar = aggPlayers[LastWithId(aggPlayers, ids[n])].avatar
            /\ Len(ids) = Len(aggPlayers) =>
                \A k \in 1..Len(aggPlayers) :
                    aggOut[k] = [aggPlayers[k] EXCEPT
                                    !.totalWinnings = aggOut[k].totalWinnings,
                                    !.gamesPlayed = aggOut[k].gamesPlayed]

\* two players of different ids, the second with stale stats that the call
\* replaced
C16_Witness ==
    /\ AggDone
    /\ Len(aggPlayers) = 2
    /\ aggPlayers[1].id # aggPlayers[2].id
    /\ aggPlayers[2].gamesPlayed # 0
    /\ Len(aggOut) = 2
    /\ aggOut[2].gamesPlayed # aggPlayers[2].gamesPlayed
    /\ aggOut[2].name = aggPlayers[2].name

\* the sessions in the order f, session k carrying the timestamp d[k]
Rearranged(history, f, d) ==
    [k \in 1..Len(history) |-> [history[f[k]] EXCEPT !.date = d[k]]]

DateRank(history, s) ==
    1 + Cardinality({t \in 1..Len(history) :
                        \/ history[t].date < history[s].date
                        \/ history[t].date = history[s].date /\ t < s})

\* the k-th session in ascending date order
KthSession(history, k) ==
    history[CHOOSE s \in 1..Len(history) : DateRank(history, s) = k]

\* cashOut - buyIn of player id over the records from position r on
RECURSIVE NetFrom(_, _, _)
NetFrom(records, id, r) ==
    IF r > Len(records) THEN 0
    ELSE (IF records[r].playerId = id THEN records[r].cashOut - records[r].buyIn ELSE 0)
         + NetFrom(records, id, r + 1)

\* the score of id in a point is the number x
HasScore(point, id, x) ==
    \E m \in 1..Len(point.scores) :
        /\ point.scores[m].id = id
        /\ ~point.scores[m].isNaN
        /\ point.scores[m].score = x

\* the score of id in a point that has a number for it
ScoreIn(point, id) ==
    point.scores[CHOOSE m \in 1..Len(point.scores) : point.scores[m].id = id].score

\* C18: generateChartData returns one point more than there are sessions;
\* the first is labelled Start and has 0 for every player; point k after it
\* is labelled G<k> and has for every player the score of the point before
\* plus the player's cashOut - buyIn in the k-th session by date, which is
\* the score of the point before when the player has no record there.
C18_SeriesPoints ==
    AggCharted =>
        /\ Len(chartOut) = Len(aggSessions) + 1
        /\ chartOut[1].label = <<"Start">>
        /\ \A p \in 1..Len(aggPlayers) : HasScore(chartOut[1], aggPlayers[p].id, 0)
        /\ \A k \in 1..Len(aggSessions) :
            /\ chartOut[k + 1].label = <<"G", k>>
            /\ \A p \in 1..Len(aggPlayers) :
                HasScore(chartOut[k + 1], aggPlayers[p].id,
                         ScoreIn(chartOut[k], aggPlayers[p].id)
                           + NetFrom(KthSession(aggSessions, k).players, aggPlayers[p].id, 1))

\* two sessions, the later one first in the list; a player without a record
\* in the earlier one keeps 0 in G1 and has another score in G2
C18_Witness ==
    /\ AggCharted
    /\ Len(aggSessions) = 2
    /\ aggSessions[1].date > aggSessions[2].date
    /\ \E p \in 1..Len(aggPlayers) :
        /\ NetFrom(aggSessions[2].players, aggPlayers[p].id, 1) = 0
        /\ aggSessions[2].players # <<>>
        /\ HasScore(chartOut[2], aggPlayers[p].id, 0)
        /\ ~HasScore(chartOut[3], aggPlayers[p].id, 0)

----------------------------------------------------------------------------
(* Properties of the host: import and deletePlayer *)

\* the document lacks the players key or the sessions key, or its sessions
\* is not a sequence, or its text is not valid JSON
Malformed(doc) ==
    \/ ~doc.parses
    \/ doc.players.kind = "absent"
    \/ doc.sessions.kind = "absent"
    \/ doc.sessions.kind # "array"

\* C19: an importData step for a malformed document leaves the players, the
\* sessions and the storage item as they are and does not report success.
C19_MalformedImportChangesNothing ==
    [][\A doc \in ImportDocs :
          (ImportOf(doc) /\ Malformed(doc)) =>
              /\ UNCHANGED dataVars
              /\ lastCall'.arg # <<"Data imported successfully!">>
    ]_vars

\* an import has just been refused over players, a session saved by the
\* wizard and a storage item
C19_Witness ==
    /\ lastCall.name = "importData"
    /\ lastCall.arg = <<"Invalid file format.">>
    /\ players # <<>>
    /\ stored # <<>>
    /\ \E s \in 1..Len(sessions) : sessions[s].id <= sessionsMade
    /\ players # recalculatePlayerStats(ImportedPlayers, ImportedSessions)

\* C20: a deletePlayer step takes the deleted player out of the roster and
\* leaves the other players, stats included, in their order; the sessions
\* held and stored are the same, with every record and settlement.
C20_DeletePlayerKeepsHistory ==
    [][lastCall'.name = "deletePlayer" =>
        LET gone == lastCall'.arg[1]
        IN  /\ players' = SelectSeq(players, LAMBDA x : x.id # gone.id)
            /\ Len(players') = Len(players) - 1
            /\ sessions' = sessions
            /\ stored'[1].sessions = sessions
            /\ stored'[1].players = players'
    ]_vars

\* the deleted player is named by a record and by a settlement of a session
\* that is still there, and a player with a game remains
C20_Witness ==
    /\ lastCall.name = "deletePlayer"
    /\ \E s \in 1..Len(sessions) :
        /\ \E r \in 1..Len(sessions[s].players) :
            sessions[s].players[r].playerId = lastCall.arg[1].id
        /\ \E t \in 1..Len(sessions[s].settlements) :
            \/ sessions[s].settlements[t].fromId = lastCall.arg[1].id
            \/ sessions[s].settlements[t].toId = lastCall.arg[1].id
    /\ lastCall.arg[1].gamesPlayed > 0
    /\ \E n \in 1..Len(players) : players[n].gamesPlayed > 0 /\ players[n].totalWinnings # 0

----------------------------------------------------------------------------
(* Properties of the ActiveGame wizard *)

\* the session the wizard's confirmFinish has saved: the one being edited,
\* or the new one in front
SavedSession ==
    IF editingSession # <<>>
    THEN sessions'[CHOOSE s \in 1..Len(sessions') : sessions'[s].id = editingSession[1].id]
    ELSE sessions'[1]

\* C21: every step of the wizard keeps these: the RESULTS step is entered
\* by calculate alone, and holds the settlements calculateSettlements gives
\* without error for the inputs held; the inputs stay as they are from
\* RESULTS to RESULTS; a calculate that fails stays in INPUT, shows the
\* error and empties the settlements; and handleFinishGame is called from
\* RESULTS with the inputs and with calculateSettlements of these inputs,
\* which the saved session then carries.
C21_ResultsFromSolver ==
    [][/\ (step' = "RESULTS" /\ step # "RESULTS") => lastCall'.name = "calculate"
       /\ step' = "RESULTS" =>
            /\ calculateSettlements(inputs').error = <<>>
            /\ settlements' = calculateSettlements(inputs').settlements
            /\ error' = <<>>
       /\ (step = "RESULTS" /\ step' = "RESULTS") => inputs' = inputs
       /\ (lastCall'.name = "calculate" /\ calculateSettlements(inputs).error # <<>>) =>
            /\ step = "INPUT" /\ step' = "INPUT"
            /\ error' = calculateSettlements(inputs).error
            /\ settlements' = <<>>
            /\ inputs' = inputs
       /\ lastCall'.name = "handleFinishGame" =>
            /\ step = "RESULTS"
            /\ settlements = calculateSettlements(inputs).settlements
            /\ SavedSession.players = inputs
            /\ SavedSession.settlements = calculateSettlements(inputs).settlements
    ]_vars

\* confirmFinish has just saved, from RESULTS, a session that carries a
\* settlement, the one calculateSettlements gives for its records
C21_Witness ==
    /\ lastCall.name = "handleFinishGame"
    /\ sessions # <<>>
    /\ sessions[1].settlements # <<>>
    /\ sessions[1].settlements = calculateSettlements(sessions[1].players).settlements

----------------------------------------------------------------------------
(* Properties of the sweep *)

\* the states of the loop for the list handed to calculateSettlements
SolveRun == SweepRun(SweepStart(solveIn))

\* C22: for every list that passes the balance check, every iteration of
\* the sweep advances the debtor index, the creditor index or both and
\* takes none back; the loop exits after at most #debtors + #creditors
\* iterations, with the debtors or the creditors exhausted, and what it
\* has pushed is what calculateSettlements returns.
C22_SweepTerminates ==
    (Done /\ solveOut.error = <<>>) =>
        LET run  == SolveRun
            last == run[Len(run)]
            nd   == Len(Debtors(solveIn))
            nc   == Len(Creditors(solveIn))
        IN  /\ \A n \in 1..(Len(run) - 1) :
                  /\ run[n + 1].i \in {run[n].i, run[n].i + 1}
                  /\ run[n + 1].j \in {run[n].j, run[n].j + 1}
                  /\ run[n + 1].i + run[n + 1].j > run[n].i + run[n].j
            /\ Len(run) - 1 <= nd + nc
            /\ last.iterations = Len(run) - 1
            /\ last.i = nd \/ last.j = nc
            /\ last.i <= nd /\ last.j <= nc
            /\ last = SweepOf(solveIn)
            /\ solveOut.settlements = last.settlements

\* a sweep of two iterations over two debtors and one creditor: the first
\* advances the debtor index alone, the second both
C22_Witness ==
    /\ Done
    /\ solveOut.error = <<>>
    /\ Len(Debtors(solveIn)) = 2
    /\ Len(Creditors(solveIn)) = 1
    /\ Len(SolveRun) = 3
    /\ SolveRun[2].i = 1 /\ SolveRun[2].j = 0
    /\ SolveRun[3].i = 2 /\ SolveRun[3].j = 1

\* the totals of the list are equal and no net is 0.01 or -0.01
ExactlyBalanced ==
    /\ SumBuyIn(solveIn) = SumCashOut(solveIn)
    /\ \A k \in 1..Len(solveIn) : Abs(Net(solveIn[k])) # Cent

\* every buy-in and cash-out of the list is a whole number of cents
WholeCents ==
    \A k \in 1..Len(solveIn) :
        solveIn[k].buyIn % Cent = 0 /\ solveIn[k].cashOut % Cent = 0

\* the settlements returned cancel every net, and the sweep has consumed
\* the debtors and the creditors
CancelsExactly ==
    /\ solveOut.error = <<>>
    /\ \A k \in 1..Len(solveIn) :
          ReceivedBy(solveOut.settlements, solveIn[k].playerId)
              - PaidBy(solveOut.settlements, solveIn[k].playerId)
            = Net(solveIn[k])
    /\ SweepOf(solveIn).i = Len(Debtors(solveIn))
    /\ SweepOf(solveIn).j = Len(Creditors(solveIn))

----------------------------------------------------------------------------
(* Properties of the chart's keys *)

\* the keys of a scores object
KeysOf(scores) == {scores[m].id : m \in 1..Len(scores)}

\* C24: every point of generateChartData has a score under the id of every
\* player of the list and under no other id, and every score is a number,
\* whatever ids the records of the sessions name.
C24_ScoresForPlayersOnly ==
    AggCharted =>
        \A k \in 1..Len(chartOut) :
            /\ KeysOf(chartOut[k].scores) = {aggPlayers[p].id : p \in 1..Len(aggPlayers)}
            /\ \A m \in 1..Len(chartOut[k].scores) : ~chartOut[k].scores[m].isNaN

----------------------------------------------------------------------------
(* Properties of the balance indicator *)

\* C25: for every list of inputs, isBalanced of the input step is true
\* exactly when calculateSettlements of the same list returns no Imbalance
\* error, a difference of exactly 0.01 between the totals included.
C25_IndicatorAgrees ==
    Done => (isBalanced(solveIn) <=> solveOut.error = <<>>)

====
